---- MODULE Spec2Model ----
(***************************************************************************)
(* A model of the core of subotai, a Kademlia DHT node:                    *)
(*   - the routing table      (src/src/routing/mod.rs)                     *)
(*   - the key-value storage  (src/src/storage/mod.rs)                     *)
(* Hashes are HASH_SIZE-bit unsigned integers.  The widths and capacities  *)
(* of the program (160 bits, 20 entries per bucket, 10000 stored keys) are *)
(* scaled down to the bounds below; every operator is written against the  *)
(* named bound, never against its value.                                   *)
(***************************************************************************)
EXTENDS Integers, Sequences, FiniteSets, TLC

\* ------------------------------------------------------------------ bounds
\* Scaled-down sizes of the program (hash::HASH_SIZE = 160, BUCKET_DEPTH = K = 20).
HASH_SIZE == 3
BUCKET_DEPTH == 2
\* The conflicts list is never shortened by the code: inserts that would make
\* it longer than this are not explored.
MaxConflicts == 2
\* The number of insert_node calls followed when their order is recorded.
MaxCalls == 4
\* lookup is called with n in 0 .. MaxN and a blacklist of at most MaxBlacklist ids.
MaxN == 3
MaxBlacklist == 1
\* The number of lookup calls followed on one table (a lookup changes no table).
MaxLookups == 1
\* Scaled-down capacity of the storage (storage::MAX_STORAGE = 10000).
MAX_STORAGE == 2
\* Time is counted in hours; the steady clock moves TimeStep hours at a time
\* and is followed up to MaxNow.
TimeStep == 12
MaxNow == 36
\* Scaled-down distance threshold of the storage
\* (storage::EXPIRATION_DISTANCE_THRESHOLD = 5, of 160 bit positions).
EXPIRATION_DISTANCE_THRESHOLD == 1
\* The number of store and get calls followed when threads share a Storage.
MaxThreadCalls == 4
\* The number of Updates posted on the bus, and of calls of Receptions::next.
MaxUpdates == 3
MaxNextCalls == 3
\* The number of calls on a Table followed when threads share it.
MaxTableCalls == 3

\* ------------------------------------------------------- program constants
BASE_EXPIRATION_TIME_HRS == 24

\* ------------------------------------------------------------- hash (spec)
Hashes == 0 .. (2^HASH_SIZE - 1)

Bit(x, i) == (x \div (2^i)) % 2

RECURSIVE XorBits(_, _, _)
XorBits(a, b, i) ==
   IF i = HASH_SIZE THEN 0
   ELSE ((Bit(a, i) + Bit(b, i)) % 2) * (2^i) + XorBits(a, b, i + 1)

XorTable == [a \in Hashes |-> [b \in Hashes |-> XorBits(a, b, 0)]]

\* a ^ b on hashes.
Xor(a, b) == XorTable[a][b]

\* Option<T>: None is the empty sequence, Some(v) the one-element sequence.
None == << >>
Some(v) == << v >>

\* Hash::height(): the bit index of the highest "1", None for the zero hash
\* (routing uses the Option directly as a bucket index).
height(x) ==
   IF x = 0 THEN None
   ELSE Some(CHOOSE i \in 0 .. (HASH_SIZE - 1) :
                /\ Bit(x, i) = 1
                /\ \A j \in (i + 1) .. (HASH_SIZE - 1) : Bit(x, j) = 0)

RECURSIVE BitPositions(_, _, _)
BitPositions(x, v, i) ==
   IF i = HASH_SIZE THEN << >>
   ELSE (IF Bit(x, i) = v THEN << i >> ELSE << >>) \o BitPositions(x, v, i + 1)

\* Hash::ones() / Hash::zeroes(): ascending positions of set / cleared bits.
ones(x) == BitPositions(x, 1, 0)
zeroes(x) == BitPositions(x, 0, 0)

\* Ord on hashes: the order of the unsigned integers.
hash_le(a, b) == a <= b

\* Iterator::rev()
RECURSIVE rev(_)
rev(s) == IF s = << >> THEN << >> ELSE rev(Tail(s)) \o << Head(s) >>

\* ------------------------------------------------------------------- state
VARIABLES
   parent_id,       \* Table.parent_id (and Storage.parent_id)
   buckets,         \* Table.buckets: bucket index -> VecDeque<NodeInfo>, front first
   conflicts,       \* Table.conflicts: Vec<EvictionConflict>
   panicked,        \* an unwrap() on None unwound the caller
   ret,             \* the last call: its name, its arguments and what it returned
   clock,           \* history: the number of calls followed so far
   last_insert,     \* history: id -> the clock of its most recent insert_node call
   nodes_iter,      \* the AllNodes iterator (an Option): current_bucket, bucket_index
   yielded,         \* history: what the iterator has produced so far, in order
   entries_and_expirations,  \* Storage: key -> EntryAndExpiration
   now,             \* time::SteadyTime::now(), in hours
   rwlock,          \* the RwLock around Storage.entries_and_expirations
   storage_pc,      \* thread -> where it is in Storage::store or Storage::get
   writes,          \* history: key -> the entries stored under it, in lock order
   updates,         \* every Update the bus has broadcast, in order
   on_time,         \* history: how many Updates were posted before the deadline was crossed
   connected,       \* the bus (the sending side of the update channel) is alive
   receptions,      \* the Receptions object: filters, timeout, shutdown, read position
   receptions_pc,   \* where the caller of Receptions::next is
   received,        \* history: what Receptions::next has returned so far
   bucket_locks,    \* bucket index -> the RwLock of Bucket.entries
   conflicts_mutex, \* the Mutex of Table.conflicts: its holder (an Option)
   table_pc         \* thread -> where it is in a call on the Table

tableVars == << parent_id, buckets, conflicts, panicked >>
historyVars == << clock, last_insert >>
iterVars == << nodes_iter, yielded >>
storageVars == << entries_and_expirations, now >>
storageThreadVars == << rwlock, storage_pc, writes >>
receptionVars == << updates, on_time, connected, receptions, receptions_pc, received >>
tableThreadVars == << bucket_locks, conflicts_mutex, table_pc >>
vars == << parent_id, buckets, conflicts, panicked, ret, clock, last_insert,
           nodes_iter, yielded, entries_and_expirations, now,
           rwlock, storage_pc, writes,
           updates, on_time, connected, receptions, receptions_pc, received,
           bucket_locks, conflicts_mutex, table_pc >>
\* What the calls on a Table used by one thread leave alone.
nonRoutingVars == << storageVars, storageThreadVars, receptionVars, tableThreadVars >>

Addresses == {"addr"}
NodeInfo(id, address) == [id |-> id, address |-> address]
NodeInfos == {NodeInfo(id, a) : id \in Hashes, a \in Addresses}
EvictionConflict(evicted, inserted) == [evicted |-> evicted, inserted |-> inserted]

BucketIndexes == 0 .. (HASH_SIZE - 1)
Range(s) == {s[k] : k \in 1 .. Len(s)}
Ids(entries) == {entries[k].id : k \in 1 .. Len(entries)}

\* bucket_for_node as it would be if the id itself were measured.
bucket_for_node_no_xor(id) == height(id)

\* Table::bucket_for_node
bucket_for_node(id) == height(Xor(parent_id, id))

\* VecDeque::retain(|stored_info| info.id != stored_info.id)
RECURSIVE retain_not_id(_, _)
retain_not_id(entries, id) ==
   IF entries = << >> THEN << >>
   ELSE (IF Head(entries).id # id THEN << Head(entries) >> ELSE << >>)
        \o retain_not_id(Tail(entries), id)

\* insert_node as it would be if an id already stored were left where it is.
insert_entries_no_refresh(entries, info) ==
   IF info.id \in Ids(entries) THEN [entries |-> entries, conflict |-> None]
   ELSE IF Len(entries) = BUCKET_DEPTH
   THEN [entries  |-> Append(Tail(entries), info),
         conflict |-> Some(EvictionConflict(Head(entries), info))]
   ELSE [entries  |-> Append(entries, info),
         conflict |-> None]

\* insert_node as it would be if a full bucket were not emptied of its front.
insert_entries_no_eviction(entries, info) ==
   [entries  |-> Append(retain_not_id(entries, info.id), info),
    conflict |-> None]

\* The bucket's entries after insert_node, and the conflict it pushed (an Option).
insert_entries(entries, info) ==
   LET retained == retain_not_id(entries, info.id) IN
   IF Len(retained) = BUCKET_DEPTH
   THEN [entries  |-> Append(Tail(retained), info),
         conflict |-> Some(EvictionConflict(Head(retained), info))]
   ELSE [entries  |-> Append(retained, info),
         conflict |-> None]

\* Table::insert_node
insert_node(info) ==
   /\ ~panicked
   /\ LET index == bucket_for_node(info.id) IN
      IF index # None
      THEN LET r == insert_entries(buckets[index[1]], info) IN
           /\ Len(conflicts \o r.conflict) <= MaxConflicts
           /\ buckets' = [buckets EXCEPT ![index[1]] = r.entries]
           /\ conflicts' = conflicts \o r.conflict
      ELSE UNCHANGED << buckets, conflicts >>
   /\ ret' = [op |-> "insert_node", info |-> info]
   /\ UNCHANGED << parent_id, panicked >>

\* entries.iter_mut().find(|info| id == info.id): the position of the first
\* entry with the id, None when there is none.
find_id(entries, id) ==
   IF id \in Ids(entries)
   THEN Some(CHOOSE k \in 1 .. Len(entries) :
                /\ entries[k].id = id
                /\ \A j \in 1 .. (k - 1) : entries[j].id # id)
   ELSE None

\* Table::revert_conflict.  The caller hands in a conflict by value; the
\* conflicts list itself is not touched.
revert_conflict(conflict) ==
   /\ ~panicked
   /\ LET index == bucket_for_node(conflict.inserted.id) IN
      IF index # None
      THEN LET evictor == find_id(buckets[index[1]], conflict.inserted.id) IN
           IF evictor = None
           THEN \* .unwrap() on None
                /\ panicked' = TRUE
                /\ UNCHANGED buckets
           ELSE /\ buckets' = [buckets EXCEPT ![index[1]][evictor[1]] = conflict.evicted]
                /\ UNCHANGED panicked
      ELSE UNCHANGED << buckets, panicked >>
   /\ ret' = [op |-> "revert_conflict", conflict |-> conflict]
   /\ UNCHANGED << parent_id, conflicts >>

\* Table::specific_node
specific_node(id) ==
   LET index == bucket_for_node(id) IN
   IF index # None
   THEN LET k == find_id(buckets[index[1]], id) IN
        IF k # None THEN Some(buckets[index[1]][k[1]]) ELSE None
   ELSE None

\* Vec::retain(|node| !blacklist.contains(&node.id)), when a blacklist is given
RECURSIVE retain_not_blacklisted(_, _)
retain_not_blacklisted(nodes, blacklist) ==
   IF blacklist = None \/ nodes = << >> THEN nodes
   ELSE (IF Head(nodes).id \in Range(blacklist[1]) THEN << >> ELSE << Head(nodes) >>)
        \o retain_not_blacklisted(Tail(nodes), blacklist)

\* One step of a stable sort: node goes behind every entry whose key is not greater.
sorted_insert(sorted, node, id) ==
   LET before == {k \in 1 .. Len(sorted) :
                     hash_le(Xor(sorted[k].id, id), Xor(node.id, id))}
       p == Cardinality(before)
   IN SubSeq(sorted, 1, p) \o << node >> \o SubSeq(sorted, p + 1, Len(sorted))

\* Vec::sort_by_key(|info| &info.id ^ id): a stable sort by XOR distance to id.
RECURSIVE sort_by_key(_, _)
sort_by_key(nodes, id) ==
   IF nodes = << >> THEN << >>
   ELSE sorted_insert(sort_by_key(SubSeq(nodes, 1, Len(nodes) - 1), id),
                      nodes[Len(nodes)], id)

\* Vec::truncate
truncate(nodes, len) == IF Len(nodes) > len THEN SubSeq(nodes, 1, len) ELSE nodes

\* The order without the descent's rev(): set bits ascending, then cleared bits.
lookup_order_ascending(id) ==
   LET distance == Xor(parent_id, id) IN ones(distance) \o zeroes(distance)

\* descent.chain(ascent): the set bits of parent_id ^ id from the highest down,
\* then its cleared bits from the lowest up.
lookup_order(id) ==
   LET distance == Xor(parent_id, id) IN rev(ones(distance)) \o zeroes(distance)

\* The loop of closest_n_nodes_to over what is left of lookup_order; n is the
\* capacity of `closest`.
RECURSIVE bounce(_, _, _, _, _)
bounce(order, closest, id, n, blacklist) ==
   IF order = << >> THEN closest
   ELSE LET entries == buckets[Head(order)] IN
        IF entries = << >> THEN bounce(Tail(order), closest, id, n, blacklist)
        ELSE LET nodes_from_bucket ==
                    truncate(sort_by_key(retain_not_blacklisted(entries, blacklist), id),
                             n - Len(closest))
                 appended == closest \o nodes_from_bucket
             IN IF Len(appended) = n THEN appended
                ELSE bounce(Tail(order), appended, id, n, blacklist)

\* Table::closest_n_nodes_to
closest_n_nodes_to(id, n, blacklist) == bounce(lookup_order(id), << >>, id, n, blacklist)

\* LookupResult
Myself == [kind |-> "Myself", nodes |-> << >>]
Found(info) == [kind |-> "Found", nodes |-> << info >>]
ClosestNodes(list) == [kind |-> "ClosestNodes", nodes |-> list]
Nothing == [kind |-> "Nothing", nodes |-> << >>]

\* Table::lookup
lookup(id, n, blacklist) ==
   IF id = parent_id THEN Myself
   ELSE LET found == specific_node(id) IN
        IF found # None THEN Found(found[1])
        ELSE LET closest == closest_n_nodes_to(id, n, blacklist) IN
             IF closest = << >> THEN Nothing ELSE ClosestNodes(closest)

\* A call of Table::lookup, its result kept.
lookup_call(id, n, blacklist) ==
   /\ ~panicked
   /\ ret' = [op |-> "lookup", id |-> id, n |-> n, blacklist |-> blacklist,
              result |-> lookup(id, n, blacklist)]
   /\ UNCHANGED << parent_id, buckets, conflicts, panicked >>

\* Table::all_nodes
all_nodes ==
   /\ ~panicked
   /\ nodes_iter' = Some([current_bucket |-> << >>, bucket_index |-> 0])
   /\ yielded' = << >>
   /\ ret' = [op |-> "all_nodes"]
   /\ UNCHANGED << parent_id, buckets, conflicts, panicked >>

\* Vec::pop as it would be if it took the first element.
pop_first(v) ==
   IF v = << >> THEN [vec |-> v, item |-> None]
   ELSE [vec |-> Tail(v), item |-> Some(Head(v))]

\* Vec::pop: the last element leaves, None when there is none.
pop(v) ==
   IF v = << >> THEN [vec |-> v, item |-> None]
   ELSE [vec |-> SubSeq(v, 1, Len(v) - 1), item |-> Some(v[Len(v)])]

\* The while loop of AllNodes::next: buckets are read, sorted by distance to
\* parent_id and appended until current_bucket holds something or none is left.
RECURSIVE refill(_)
refill(it) ==
   IF it.bucket_index < HASH_SIZE /\ it.current_bucket = << >>
   THEN refill([current_bucket |-> it.current_bucket
                                     \o sort_by_key(buckets[it.bucket_index], parent_id),
                bucket_index   |-> it.bucket_index + 1])
   ELSE it

\* AllNodes::next
next ==
   /\ ~panicked
   /\ nodes_iter # None
   /\ LET it == refill(nodes_iter[1])
          popped == pop(it.current_bucket)
      IN /\ nodes_iter' = Some([current_bucket |-> popped.vec,
                                bucket_index   |-> it.bucket_index])
         /\ yielded' = yielded \o popped.item
         /\ ret' = [op |-> "next", item |-> popped.item]
   /\ UNCHANGED << parent_id, buckets, conflicts, panicked >>

\* ----------------------------------------------------------------- storage
\* StorageEntry: Value(hash) or Blob(bytes); one of each kind is stored here.
StorageEntries == {[kind |-> "Value", hash |-> 0, bytes |-> << >>],
                   [kind |-> "Blob", hash |-> 0, bytes |-> << 1 >>]}

\* The keys stored here: one at every height of distance from the zero hash.
StorageKeys == {0} \cup {2^i : i \in 0 .. (HASH_SIZE - 1)}

EntryAndExpiration(entry, expiration) == [entry |-> entry, expiration |-> expiration]

\* HashMap::insert as it would be if a key already present kept its value.
map_insert_keep_old(map, key, value) ==
   [k \in (DOMAIN map) \cup {key} |-> IF k \in DOMAIN map THEN map[k] ELSE value]

\* HashMap::insert
map_insert(map, key, value) ==
   [k \in (DOMAIN map) \cup {key} |-> IF k = key THEN value ELSE map[k]]

\* The expiration Storage::store gives an entry stored now under key (line 55:
\* the key plays no part in it).
expiration_of(key) == now + BASE_EXPIRATION_TIME_HRS

\* Storage::store as it would be if a present key were overwritten before the
\* capacity test.
store_result_upsert_first(map, key, entry_and_expiration) ==
   IF key \in DOMAIN map
   THEN [map |-> map_insert(map, key, entry_and_expiration), result |-> "AlreadyPresent"]
   ELSE IF Cardinality(DOMAIN map) >= MAX_STORAGE
   THEN [map |-> map, result |-> "StorageFull"]
   ELSE [map |-> map_insert(map, key, entry_and_expiration), result |-> "Success"]

\* Storage::store as it would be without its capacity test.
store_result_unchecked(map, key, entry_and_expiration) ==
   [map    |-> map_insert(map, key, entry_and_expiration),
    result |-> IF key \in DOMAIN map THEN "AlreadyPresent" ELSE "Success"]

\* Storage::store as it would be if the capacity test were `>`.
store_result_off_by_one(map, key, entry_and_expiration) ==
   IF Cardinality(DOMAIN map) > MAX_STORAGE
   THEN [map |-> map, result |-> "StorageFull"]
   ELSE [map    |-> map_insert(map, key, entry_and_expiration),
         result |-> IF key \in DOMAIN map THEN "AlreadyPresent" ELSE "Success"]

\* The map after Storage::store and the StoreResult, lines 58-65.
store_result(map, key, entry_and_expiration) ==
   IF Cardinality(DOMAIN map) >= MAX_STORAGE
   THEN [map |-> map, result |-> "StorageFull"]
   ELSE [map    |-> map_insert(map, key, entry_and_expiration),
         result |-> IF key \in DOMAIN map THEN "AlreadyPresent" ELSE "Success"]

\* Storage::store, under the write lock
store(key, entry) ==
   LET r == store_result(entries_and_expirations, key,
                         EntryAndExpiration(entry, expiration_of(key)))
   IN /\ entries_and_expirations' = r.map
      /\ ret' = [op |-> "store", key |-> key, entry |-> entry, result |-> r.result]
      /\ UNCHANGED << parent_id, now >>

\* Storage::get, under the read lock
get(key) ==
   /\ ret' = [op |-> "get", key |-> key,
              result |-> IF key \in DOMAIN entries_and_expirations
                         THEN Some(entries_and_expirations[key].entry)
                         ELSE None]
   /\ UNCHANGED << parent_id, entries_and_expirations, now >>

\* Storage::len
len == Cardinality(DOMAIN entries_and_expirations)

\* The steady clock moves on.
advance ==
   /\ now + TimeStep <= MaxNow
   /\ now' = now + TimeStep
   /\ ret' = [op |-> "advance"]
   /\ UNCHANGED << parent_id, entries_and_expirations >>

\* The ids a table is constructed around in this model.
Parents == {0, 5}

\* The threads that share a Storage or a Table.
Threads == {1, 2}

\* RwLock::new, Mutex::new
Unlocked == [writer |-> None, readers |-> {}, poisoned |-> FALSE]

\* Receptions::new
receptions_new ==
   [cursor        |-> 0,
    timeout       |-> None,
    kind_filter   |-> None,
    sender_filter |-> None,
    shutdown      |-> FALSE]

\* No thread is in a call; a Receptions is new and nothing was posted.
NoThreads ==
   /\ rwlock = Unlocked
   /\ storage_pc = [t \in Threads |-> [pc |-> "idle"]]
   /\ writes = [key \in Hashes |-> << >>]
   /\ updates = << >>
   /\ on_time = 0
   /\ connected = TRUE
   /\ receptions = receptions_new
   /\ receptions_pc = "idle"
   /\ received = << >>
   /\ bucket_locks = [i \in BucketIndexes |-> Unlocked]
   /\ conflicts_mutex = None
   /\ table_pc = [t \in Threads |-> [pc |-> "idle"]]

\* Table::new
Init ==
   /\ parent_id \in Parents
   /\ buckets = [i \in BucketIndexes |-> << >>]
   /\ conflicts = << >>
   /\ panicked = FALSE
   /\ ret = [op |-> "new"]
   /\ clock = 0
   /\ last_insert = [id \in Hashes |-> 0]
   /\ nodes_iter = None
   /\ yielded = << >>
   /\ entries_and_expirations = << >>
   /\ now = 0
   /\ NoThreads

\* The routing table under insert_node and revert_conflict of recorded conflicts.
Next ==
   \/ \E info \in NodeInfos :
         insert_node(info) /\ UNCHANGED << historyVars, iterVars, nonRoutingVars >>
   \/ \E k \in 1 .. Len(conflicts) :
         revert_conflict(conflicts[k]) /\ UNCHANGED << historyVars, iterVars, nonRoutingVars >>

Spec == Init /\ [][Next]_vars

\* The routing table under insert_node alone, the order of the calls recorded.
RecencyNext ==
   \E info \in NodeInfos :
      /\ clock < MaxCalls
      /\ insert_node(info)
      /\ clock' = clock + 1
      /\ last_insert' = [last_insert EXCEPT ![info.id] = clock + 1]
      /\ UNCHANGED << iterVars, nonRoutingVars >>

RecencySpec == Init /\ [][RecencyNext]_vars

SeqsUpTo(S, n) == UNION {[1 .. m -> S] : m \in 0 .. n}

\* What insert_node and revert_conflict can leave in bucket i: up to BUCKET_DEPTH
\* peers of that bucket, in any order; an id repeats only where the bucket has
\* more peers than places, so that evictions, and with them reverts, happen.
BucketPeers(i) == {info \in NodeInfos : bucket_for_node(info.id) = Some(i)}
BucketContents(i) ==
   {entries \in SeqsUpTo(BucketPeers(i), BUCKET_DEPTH) :
       Cardinality(BucketPeers(i)) <= BUCKET_DEPTH
          => Cardinality(Ids(entries)) = Len(entries)}

\* The tables, as functions over the buckets 0 .. i - 1.
RECURSIVE TablesUpTo(_)
TablesUpTo(i) ==
   IF i = 0 THEN {<< >>}
   ELSE {[j \in 0 .. (i - 1) |-> IF j = i - 1 THEN entries ELSE t[j]] :
            t \in TablesUpTo(i - 1), entries \in BucketContents(i - 1)}

Blacklists == {None} \cup {Some(list) : list \in SeqsUpTo(Hashes, MaxBlacklist)}

\* A table that is not being modified: any table the calls above can leave.
\* Lookups and iterations read parent_id and buckets alone; the conflicts list
\* plays no part in them and is left empty.
QuiescentInit ==
   /\ parent_id \in Parents
   /\ buckets \in TablesUpTo(HASH_SIZE)
   /\ conflicts = << >>
   /\ panicked = FALSE
   /\ ret = [op |-> "new"]
   /\ clock = 0
   /\ last_insert = [id \in Hashes |-> 0]
   /\ nodes_iter = None
   /\ yielded = << >>
   /\ entries_and_expirations = << >>
   /\ now = 0
   /\ NoThreads

LookupNext ==
   \E id \in Hashes : \E n \in 0 .. MaxN : \E blacklist \in Blacklists :
      /\ clock < MaxLookups
      /\ lookup_call(id, n, blacklist)
      /\ clock' = clock + 1
      /\ UNCHANGED << last_insert, iterVars, nonRoutingVars >>

\* Lookups on a quiescent table.
LookupSpec == QuiescentInit /\ [][LookupNext]_vars

IterNext ==
   \/ all_nodes /\ UNCHANGED << historyVars, nonRoutingVars >>
   \/ next /\ UNCHANGED << historyVars, nonRoutingVars >>

\* Iterations over a quiescent table.
IterSpec == QuiescentInit /\ [][IterNext]_vars

routingVars == << buckets, conflicts, panicked, historyVars, iterVars >>
\* What the calls on a Storage used by one thread leave alone.
nonStorageVars == << routingVars, storageThreadVars, receptionVars, tableThreadVars >>

StorageNext ==
   \/ \E key \in StorageKeys : \E entry \in StorageEntries :
         store(key, entry) /\ UNCHANGED nonStorageVars
   \/ \E key \in StorageKeys : get(key) /\ UNCHANGED nonStorageVars
   \/ advance /\ UNCHANGED nonStorageVars

\* The storage under store, get and the passing of time.
StorageSpec == Init /\ [][StorageNext]_vars

\* -------------------------------------------------- a Storage shared by threads
\* RwLock::write returns when nobody holds the lock, RwLock::read when no
\* writer holds it.
write_available(lock) == lock.writer = None /\ lock.readers = {}
read_available(lock) == lock.writer = None

\* A thread calls Storage::store and asks for the write lock (line 54).
store_call(t, key, entry) ==
   /\ storage_pc[t].pc = "idle"
   /\ clock < MaxThreadCalls
   /\ clock' = clock + 1
   /\ storage_pc' = [storage_pc EXCEPT
                       ![t] = [pc |-> "store_write", key |-> key, entry |-> entry]]
   /\ UNCHANGED << parent_id, ret, storageVars, rwlock, writes >>

\* write() returns the guard (line 54).
store_write(t) ==
   /\ storage_pc[t].pc = "store_write"
   /\ write_available(rwlock)
   /\ rwlock' = [rwlock EXCEPT !.writer = Some(t)]
   /\ storage_pc' = [storage_pc EXCEPT ![t].pc = "store_locked"]
   /\ UNCHANGED << parent_id, ret, storageVars, clock, writes >>

\* Lines 55-66 under the write lock: store itself, then the guard is dropped
\* and the call returns.
store_locked(t) ==
   /\ storage_pc[t].pc = "store_locked"
   /\ store(storage_pc[t].key, storage_pc[t].entry)
   /\ writes' = IF ret'.result = "StorageFull" THEN writes
                ELSE [writes EXCEPT ![storage_pc[t].key] = Append(@, storage_pc[t].entry)]
   /\ rwlock' = [rwlock EXCEPT !.writer = None]
   /\ storage_pc' = [storage_pc EXCEPT ![t] = [pc |-> "idle"]]
   /\ UNCHANGED clock

\* A thread calls Storage::get and asks for the read lock (line 69).  floor is
\* the number of stores to the key that have returned by now.
get_call(t, key) ==
   /\ storage_pc[t].pc = "idle"
   /\ clock < MaxThreadCalls
   /\ clock' = clock + 1
   /\ storage_pc' = [storage_pc EXCEPT
                       ![t] = [pc |-> "get_read", key |-> key,
                               floor |-> Len(writes[key])]]
   /\ UNCHANGED << parent_id, ret, storageVars, rwlock, writes >>

\* read() returns the guard (line 69).
get_read(t) ==
   /\ storage_pc[t].pc = "get_read"
   /\ read_available(rwlock)
   /\ rwlock' = [rwlock EXCEPT !.readers = @ \cup {t}]
   /\ storage_pc' = [storage_pc EXCEPT ![t].pc = "get_locked"]
   /\ UNCHANGED << parent_id, ret, storageVars, clock, writes >>

\* Lines 69-73 under the read lock: get itself, then the guard is dropped and
\* the call returns.
get_locked(t) ==
   /\ storage_pc[t].pc = "get_locked"
   /\ get(storage_pc[t].key)
   /\ rwlock' = [rwlock EXCEPT !.readers = @ \ {t}]
   /\ storage_pc' = [storage_pc EXCEPT ![t] = [pc |-> "idle"]]
   /\ UNCHANGED << clock, writes >>

\* What the calls on a shared Storage leave alone.
nonSharedStorageVars ==
   << buckets, conflicts, panicked, last_insert, iterVars, receptionVars, tableThreadVars >>

SharedStorageNext ==
   \/ \E t \in Threads : \E key \in StorageKeys : \E entry \in StorageEntries :
         store_call(t, key, entry) /\ UNCHANGED nonSharedStorageVars
   \/ \E t \in Threads : store_write(t) /\ UNCHANGED nonSharedStorageVars
   \/ \E t \in Threads : store_locked(t) /\ UNCHANGED nonSharedStorageVars
   \/ \E t \in Threads : \E key \in StorageKeys :
         get_call(t, key) /\ UNCHANGED nonSharedStorageVars
   \/ \E t \in Threads : get_read(t) /\ UNCHANGED nonSharedStorageVars
   \/ \E t \in Threads : get_locked(t) /\ UNCHANGED nonSharedStorageVars

\* The storage under store and get calls of several threads.
SharedStorageSpec == Init /\ [][SharedStorageNext]_vars

\* ---------------------------------------------------- a Table shared by threads
\* The guard of a write lock is dropped; by a panicking thread it poisons the lock.
release_write(lock, poison) == [lock EXCEPT !.writer = None, !.poisoned = @ \/ poison]
release_read(lock, t) == [lock EXCEPT !.readers = @ \ {t}]

Idle == [pc |-> "idle"]
\* The thread has unwound from an unwrap() on None or on a poisoned lock.
Panicked == [pc |-> "panicked"]

\* entries.write().unwrap() on bucket i returns to thread t, which goes on as
\* `then`; on a poisoned lock the unwrap panics and the guard is dropped.
bucket_write(t, i, then) ==
   /\ write_available(bucket_locks[i])
   /\ IF bucket_locks[i].poisoned
      THEN /\ table_pc' = [table_pc EXCEPT ![t] = Panicked]
           /\ UNCHANGED bucket_locks
      ELSE /\ table_pc' = [table_pc EXCEPT ![t] = then]
           /\ bucket_locks' = [bucket_locks EXCEPT ![i].writer = Some(t)]

\* entries.read().unwrap() on bucket i, likewise.
bucket_read(t, i, then) ==
   /\ read_available(bucket_locks[i])
   /\ IF bucket_locks[i].poisoned
      THEN /\ table_pc' = [table_pc EXCEPT ![t] = Panicked]
           /\ UNCHANGED bucket_locks
      ELSE /\ table_pc' = [table_pc EXCEPT ![t] = then]
           /\ bucket_locks' = [bucket_locks EXCEPT ![i].readers = @ \cup {t}]

\* A thread calls insert_node (lines 55-58): nothing to do for parent_id,
\* otherwise it asks for the write lock of the bucket.
insert_node_call(t, info) ==
   /\ table_pc[t] = Idle
   /\ clock < MaxTableCalls
   /\ clock' = clock + 1
   /\ LET index == bucket_for_node(info.id) IN
      table_pc' = [table_pc EXCEPT ![t] =
         IF index = None THEN Idle
         ELSE [pc |-> "insert_node_write", info |-> info, index |-> index[1]]]
   /\ UNCHANGED << buckets, conflicts, bucket_locks, conflicts_mutex >>

\* Line 58: the write lock is granted.
insert_node_write(t) ==
   /\ table_pc[t].pc = "insert_node_write"
   /\ bucket_write(t, table_pc[t].index, [table_pc[t] EXCEPT !.pc = "insert_node_locked"])
   /\ UNCHANGED << buckets, conflicts, conflicts_mutex, clock >>

\* Lines 60-65 and 69 under the write lock.  Without an eviction the entry is
\* pushed, the guard dropped and the call returns; with one, the thread goes on
\* to ask for the conflicts mutex (line 66), the bucket still locked.
insert_node_locked(t) ==
   /\ table_pc[t].pc = "insert_node_locked"
   /\ LET me == table_pc[t]
          r == insert_entries(buckets[me.index], me.info)
      IN IF r.conflict = None
         THEN /\ buckets' = [buckets EXCEPT ![me.index] = r.entries]
              /\ bucket_locks' = [bucket_locks EXCEPT
                                    ![me.index] = release_write(@, FALSE)]
              /\ table_pc' = [table_pc EXCEPT ![t] = Idle]
         ELSE /\ table_pc' = [table_pc EXCEPT ![t].pc = "insert_node_lock_conflicts"]
              /\ UNCHANGED << buckets, bucket_locks >>
   /\ UNCHANGED << conflicts, conflicts_mutex, clock >>

\* Line 66: self.conflicts.lock() is granted.
insert_node_lock_conflicts(t) ==
   /\ table_pc[t].pc = "insert_node_lock_conflicts"
   /\ conflicts_mutex = None
   /\ conflicts_mutex' = Some(t)
   /\ table_pc' = [table_pc EXCEPT ![t].pc = "insert_node_push"]
   /\ UNCHANGED << buckets, conflicts, bucket_locks, clock >>

\* Lines 67-70: the conflict is pushed and the mutex released, the entry is
\* pushed to the bucket, its guard dropped, and the call returns.
insert_node_push(t) ==
   /\ table_pc[t].pc = "insert_node_push"
   /\ LET me == table_pc[t]
          r == insert_entries(buckets[me.index], me.info)
      IN /\ conflicts' = conflicts \o r.conflict
         /\ buckets' = [buckets EXCEPT ![me.index] = r.entries]
         /\ bucket_locks' = [bucket_locks EXCEPT ![me.index] = release_write(@, FALSE)]
   /\ conflicts_mutex' = None
   /\ table_pc' = [table_pc EXCEPT ![t] = Idle]
   /\ UNCHANGED clock

\* A thread calls revert_conflict with a recorded conflict (lines 169-171).
revert_conflict_call(t, conflict) ==
   /\ table_pc[t] = Idle
   /\ clock < MaxTableCalls
   /\ clock' = clock + 1
   /\ LET index == bucket_for_node(conflict.inserted.id) IN
      table_pc' = [table_pc EXCEPT ![t] =
         IF index = None THEN Idle
         ELSE [pc |-> "revert_conflict_write", conflict |-> conflict, index |-> index[1]]]
   /\ UNCHANGED << buckets, conflicts, bucket_locks, conflicts_mutex >>

\* Line 171: the write lock is granted.
revert_conflict_write(t) ==
   /\ table_pc[t].pc = "revert_conflict_write"
   /\ bucket_write(t, table_pc[t].index,
                   [table_pc[t] EXCEPT !.pc = "revert_conflict_locked"])
   /\ UNCHANGED << buckets, conflicts, conflicts_mutex, clock >>

\* Lines 172-174 under the write lock: the unwrap() on None unwinds the thread
\* and poisons the lock.
revert_conflict_locked(t) ==
   /\ table_pc[t].pc = "revert_conflict_locked"
   /\ LET me == table_pc[t]
          evictor == find_id(buckets[me.index], me.conflict.inserted.id)
      IN IF evictor = None
         THEN /\ table_pc' = [table_pc EXCEPT ![t] = Panicked]
              /\ bucket_locks' = [bucket_locks EXCEPT ![me.index] = release_write(@, TRUE)]
              /\ UNCHANGED buckets
         ELSE /\ buckets' = [buckets EXCEPT ![me.index][evictor[1]] = me.conflict.evicted]
              /\ bucket_locks' = [bucket_locks EXCEPT ![me.index] = release_write(@, FALSE)]
              /\ table_pc' = [table_pc EXCEPT ![t] = Idle]
   /\ UNCHANGED << conflicts, conflicts_mutex, clock >>

\* A thread calls specific_node (lines 123-125), or lookup (lines 90-95), which
\* starts with it; n = 0 when called on its own.
specific_node_call(t, op, id, n, blacklist) ==
   /\ table_pc[t] = Idle
   /\ clock < MaxTableCalls
   /\ clock' = clock + 1
   /\ LET index == bucket_for_node(id) IN
      table_pc' = [table_pc EXCEPT ![t] =
         IF index = None THEN Idle
         ELSE [pc |-> "specific_node_read", op |-> op, id |-> id, n |-> n,
               blacklist |-> blacklist, index |-> index[1]]]
   /\ UNCHANGED << buckets, conflicts, bucket_locks, conflicts_mutex >>

\* Line 125: the read lock is granted.
specific_node_read(t) ==
   /\ table_pc[t].pc = "specific_node_read"
   /\ bucket_read(t, table_pc[t].index, [table_pc[t] EXCEPT !.pc = "specific_node_locked"])
   /\ UNCHANGED << buckets, conflicts, conflicts_mutex, clock >>

\* The state of a thread at the head of the loop of closest_n_nodes_to
\* (line 139), or Idle when the loop is over: `order` is what is left of
\* lookup_order.
closest_loop(me, order, closest) ==
   IF order = << >> \/ Len(closest) = me.n THEN Idle
   ELSE [pc |-> "closest_read", id |-> me.id, n |-> me.n, blacklist |-> me.blacklist,
         order |-> order, closest |-> closest]

\* Lines 126-128 under the read lock; specific_node returns, and lookup goes on
\* to closest_n_nodes_to when the id was not found (lines 95-98, 133-139).
specific_node_locked(t) ==
   /\ table_pc[t].pc = "specific_node_locked"
   /\ LET me == table_pc[t]
          found == find_id(buckets[me.index], me.id)
      IN /\ bucket_locks' = [bucket_locks EXCEPT ![me.index] = release_read(@, t)]
         /\ table_pc' = [table_pc EXCEPT ![t] =
               IF me.op = "lookup" /\ found = None
               THEN [pc |-> "closest_read", id |-> me.id, n |-> me.n,
                     blacklist |-> me.blacklist,
                     order |-> lookup_order(me.id), closest |-> << >>]
               ELSE Idle]
   /\ UNCHANGED << buckets, conflicts, conflicts_mutex, clock >>

\* Line 140: the read lock of the next bucket of the lookup order is granted.
closest_read(t) ==
   /\ table_pc[t].pc = "closest_read"
   /\ bucket_read(t, Head(table_pc[t].order), [table_pc[t] EXCEPT !.pc = "closest_locked"])
   /\ UNCHANGED << buckets, conflicts, conflicts_mutex, clock >>

\* Lines 141-148 under the read lock: an empty bucket is left (the guard
\* `entries` is dropped at the end of the iteration); otherwise its entries are
\* cloned and filtered, the guard still alive.
closest_locked(t) ==
   /\ table_pc[t].pc = "closest_locked"
   /\ LET me == table_pc[t]
          entries == buckets[Head(me.order)]
      IN IF entries = << >>
         THEN /\ bucket_locks' = [bucket_locks EXCEPT
                                    ![Head(me.order)] = release_read(@, t)]
              /\ table_pc' = [table_pc EXCEPT
                                ![t] = closest_loop(me, Tail(me.order), me.closest)]
         ELSE /\ table_pc' = [table_pc EXCEPT ![t] =
                    [pc |-> "closest_sort", id |-> me.id, n |-> me.n,
                     blacklist |-> me.blacklist, order |-> me.order,
                     closest |-> me.closest,
                     nodes_from_bucket |-> retain_not_blacklisted(entries, me.blacklist)]]
              /\ UNCHANGED bucket_locks
   /\ UNCHANGED << buckets, conflicts, conflicts_mutex, clock >>

\* Lines 150-158: the clone is sorted, truncated and appended; the guard
\* `entries` is dropped where the iteration ends or the loop breaks.
closest_sort(t) ==
   /\ table_pc[t].pc = "closest_sort"
   /\ LET me == table_pc[t]
          nodes_from_bucket == truncate(sort_by_key(me.nodes_from_bucket, me.id),
                                        me.n - Len(me.closest))
      IN /\ bucket_locks' = [bucket_locks EXCEPT ![Head(me.order)] = release_read(@, t)]
         /\ table_pc' = [table_pc EXCEPT
               ![t] = closest_loop(me, Tail(me.order), me.closest \o nodes_from_bucket)]
   /\ UNCHANGED << buckets, conflicts, conflicts_mutex, clock >>

\* A thread iterates over all_nodes(): AllNodes::next visits the buckets in
\* index order (lines 209-217).
all_nodes_call(t) ==
   /\ table_pc[t] = Idle
   /\ clock < MaxTableCalls
   /\ clock' = clock + 1
   /\ table_pc' = [table_pc EXCEPT ![t] = [pc |-> "all_nodes_read", bucket_index |-> 0]]
   /\ UNCHANGED << buckets, conflicts, bucket_locks, conflicts_mutex >>

\* Line 211: the read lock is granted.
all_nodes_read(t) ==
   /\ table_pc[t].pc = "all_nodes_read"
   /\ bucket_read(t, table_pc[t].bucket_index,
                  [table_pc[t] EXCEPT !.pc = "all_nodes_locked"])
   /\ UNCHANGED << buckets, conflicts, conflicts_mutex, clock >>

\* Lines 210-218: the bucket is cloned and the guard dropped where the lock
\* scope ends; sorting and popping take no lock.
all_nodes_locked(t) ==
   /\ table_pc[t].pc = "all_nodes_locked"
   /\ LET me == table_pc[t] IN
      /\ bucket_locks' = [bucket_locks EXCEPT ![me.bucket_index] = release_read(@, t)]
      /\ table_pc' = [table_pc EXCEPT ![t] =
            IF me.bucket_index + 1 < HASH_SIZE
            THEN [pc |-> "all_nodes_read", bucket_index |-> me.bucket_index + 1]
            ELSE Idle]
   /\ UNCHANGED << buckets, conflicts, conflicts_mutex, clock >>

\* The peers of bucket i, by ascending id.
PeersInOrder(i) ==
   LET RECURSIVE ascending(_)
       ascending(rest) ==
          IF rest = {} THEN << >>
          ELSE LET least == CHOOSE id \in rest : \A other \in rest : id <= other
               IN << NodeInfo(least, "addr") >> \o ascending(rest \ {least})
   IN ascending({id \in Hashes : bucket_for_node(id) = Some(i)})

\* insert_node of every peer of the list in turn, on the entries of one bucket.
RECURSIVE inserted_in_turn(_, _)
inserted_in_turn(r, peers) ==
   IF peers = << >> THEN r
   ELSE LET one == insert_entries(r.entries, Head(peers))
        IN inserted_in_turn([entries  |-> one.entries,
                             conflict |-> r.conflict \o one.conflict], Tail(peers))

\* Bucket i after insert_node of its first m peers, with the conflicts recorded.
AfterInserts(i, m) ==
   inserted_in_turn([entries |-> << >>, conflict |-> << >>],
                    truncate(PeersInOrder(i), m))

\* The conflicts of the buckets from i upwards, in bucket order.
RECURSIVE conflicts_from(_, _)
conflicts_from(i, filled) ==
   IF i = HASH_SIZE THEN << >>
   ELSE AfterInserts(i, filled[i]).conflict \o conflicts_from(i + 1, filled)

\* The tables the threads start on: every bucket is empty, or holds the first
\* peers it has room for, or has seen one peer more and evicted the first.
SharedTableInit ==
   /\ parent_id \in Parents
   /\ \E filled \in [BucketIndexes -> {0, BUCKET_DEPTH, BUCKET_DEPTH + 1}] :
         /\ buckets = [i \in BucketIndexes |-> AfterInserts(i, filled[i]).entries]
         /\ conflicts = conflicts_from(0, filled)
   /\ panicked = FALSE
   /\ ret = [op |-> "new"]
   /\ clock = 0
   /\ last_insert = [id \in Hashes |-> 0]
   /\ nodes_iter = None
   /\ yielded = << >>
   /\ entries_and_expirations = << >>
   /\ now = 0
   /\ NoThreads

\* The ids the threads look for: at the distances 0..01 (the lookup order is
\* bucket 0, then the others upwards), 10..01 (the top bucket, bucket 0, then
\* the others upwards) and 1..1 (every bucket downwards) from parent_id.
Targets == {Xor(parent_id, d) : d \in {1, 2^(HASH_SIZE - 1) + 1, 2^HASH_SIZE - 1}}

\* What the calls on a shared Table leave alone.
nonSharedTableVars ==
   << parent_id, panicked, ret, last_insert, iterVars, storageVars, storageThreadVars,
      receptionVars >>

SharedTableNext ==
   \/ \E t \in Threads : \E info \in NodeInfos :
         insert_node_call(t, info) /\ UNCHANGED nonSharedTableVars
   \/ \E t \in Threads : insert_node_write(t) /\ UNCHANGED nonSharedTableVars
   \/ \E t \in Threads : insert_node_locked(t) /\ UNCHANGED nonSharedTableVars
   \/ \E t \in Threads : insert_node_lock_conflicts(t) /\ UNCHANGED nonSharedTableVars
   \/ \E t \in Threads : insert_node_push(t) /\ UNCHANGED nonSharedTableVars
   \/ \E t \in Threads : \E k \in 1 .. Len(conflicts) :
         revert_conflict_call(t, conflicts[k]) /\ UNCHANGED nonSharedTableVars
   \/ \E t \in Threads : revert_conflict_write(t) /\ UNCHANGED nonSharedTableVars
   \/ \E t \in Threads : revert_conflict_locked(t) /\ UNCHANGED nonSharedTableVars
   \/ \E t \in Threads : \E id \in Targets :
         specific_node_call(t, "specific_node", id, 0, None) /\ UNCHANGED nonSharedTableVars
   \/ \E t \in Threads : \E id \in Targets : \E n \in {1, MaxN} :
         specific_node_call(t, "lookup", id, n, None) /\ UNCHANGED nonSharedTableVars
   \/ \E t \in Threads : specific_node_read(t) /\ UNCHANGED nonSharedTableVars
   \/ \E t \in Threads : specific_node_locked(t) /\ UNCHANGED nonSharedTableVars
   \/ \E t \in Threads : closest_read(t) /\ UNCHANGED nonSharedTableVars
   \/ \E t \in Threads : closest_locked(t) /\ UNCHANGED nonSharedTableVars
   \/ \E t \in Threads : closest_sort(t) /\ UNCHANGED nonSharedTableVars
   \/ \E t \in Threads : all_nodes_call(t) /\ UNCHANGED nonSharedTableVars
   \/ \E t \in Threads : all_nodes_read(t) /\ UNCHANGED nonSharedTableVars
   \/ \E t \in Threads : all_nodes_locked(t) /\ UNCHANGED nonSharedTableVars

\* The routing table under the calls of several threads.
SharedTableSpec == SharedTableInit /\ [][SharedTableNext]_vars

\* ---------------------------------------------------------------- receptions
\* rpc::Kind, by variant, and the KindFilter each is held against (lines 93-103).
KindFilterFor ==
   [Ping              |-> "Ping",
    PingResponse      |-> "PingResponse",
    Store             |-> "Store",
    FindNode          |-> "FindNode",
    FindNodeResponse  |-> "FindNodeResponse",
    FindValue         |-> "FindValue",
    FindValueResponse |-> "FindValueResponse",
    Bootstrap         |-> "Bootstrap",
    BootstrapResponse |-> "BootstrapResponse"]

\* The RPCs and the senders that are posted here.
PostedKinds == {"Ping", "Store"}
Senders == {1, 2}
Rpc(kind, sender_id) == [kind |-> kind, sender_id |-> sender_id]

\* resources::Update
RpcReceived(rpc) == [type |-> "RpcReceived", rpc |-> rpc]
Tick == [type |-> "Tick"]
Shutdown == [type |-> "Shutdown"]
Updates == {RpcReceived(Rpc(k, sd)) : k \in PostedKinds, sd \in Senders} \cup {Tick, Shutdown}

\* Receptions::during
during(r, lifespan) == [r EXCEPT !.timeout = Some(now + lifespan)]
\* Receptions::of_kind
of_kind(r, filter) == [r EXCEPT !.kind_filter = Some(filter)]
\* Receptions::from
from(r, sender) == [r EXCEPT !.sender_filter = Some(<< sender >>)]
\* Receptions::from_senders
from_senders(r, senders) == [r EXCEPT !.sender_filter = Some(senders)]

\* The Receptions objects iterated here: new, and then any of during, of_kind
\* and from / from_senders.
Configured ==
   LET timed == {receptions_new, during(receptions_new, TimeStep)}
       kinded == timed \cup {of_kind(r, "Ping") : r \in timed}
   IN kinded \cup {from(r, 1) : r \in kinded}
             \cup {from_senders(r, << 2, 1 >>) : r \in kinded}

\* The bus broadcasts an Update: it is queued for the reader of this Receptions.
post(update) ==
   /\ connected
   /\ Len(updates) < MaxUpdates
   /\ updates' = Append(updates, update)
   /\ on_time' = IF receptions.timeout # None /\ now > receptions.timeout[1]
                 THEN on_time ELSE Len(updates) + 1
   /\ UNCHANGED << connected, receptions, receptions_pc, received, now, ret >>

\* The bus is dropped: what it broadcast before can still be read.
disconnect ==
   /\ connected
   /\ connected' = FALSE
   /\ UNCHANGED << updates, on_time, receptions, receptions_pc, received, now, ret >>

\* Receptions::next is called.
next_call ==
   /\ receptions_pc = "idle"
   /\ Len(received) < MaxNextCalls
   /\ receptions_pc' = "loop"
   /\ UNCHANGED << updates, on_time, connected, receptions, received, now, ret >>

\* The tests at the head of the loop that leave it with `break` (lines 80-87).
loop_breaks_without_shutdown(r) == r.timeout # None /\ now > r.timeout[1]

loop_breaks(r) ==
   \/ r.timeout # None /\ now > r.timeout[1]
   \/ r.shutdown

\* The head of the loop, and `None` after it (lines 79-88, 118).
next_loop ==
   /\ receptions_pc = "loop"
   /\ IF loop_breaks(receptions)
      THEN /\ receptions_pc' = "idle"
           /\ received' = Append(received, None)
      ELSE /\ receptions_pc' = "read"
           /\ UNCHANGED received
   /\ UNCHANGED << updates, on_time, connected, receptions, now, ret >>

\* The filters an RpcReceived goes through (lines 92-110): TRUE when the rpc
\* is returned, FALSE when the loop continues.
passes_without_sender_filter(r, rpc) ==
   r.kind_filter # None => r.kind_filter[1] = KindFilterFor[rpc.kind]

passes(r, rpc) ==
   /\ r.kind_filter # None => r.kind_filter[1] = KindFilterFor[rpc.kind]
   /\ r.sender_filter # None => rpc.sender_id \in Range(r.sender_filter[1])

\* self.iter.next() returns an Update and the match on it (lines 90-116).
next_read ==
   /\ receptions_pc = "read"
   /\ receptions.cursor < Len(updates)
   /\ LET update == updates[receptions.cursor + 1]
          read == [receptions EXCEPT !.cursor = @ + 1]
      IN IF update.type = "RpcReceived"
         THEN /\ receptions' = read
              /\ IF passes(receptions, update.rpc)
                 THEN /\ receptions_pc' = "idle"
                      /\ received' = Append(received, Some(update.rpc))
                 ELSE /\ receptions_pc' = "loop"
                      /\ UNCHANGED received
         ELSE IF update.type = "Shutdown"
         THEN /\ receptions' = [read EXCEPT !.shutdown = TRUE]
              /\ receptions_pc' = "loop"
              /\ UNCHANGED received
         ELSE /\ receptions' = read
              /\ receptions_pc' = "loop"
              /\ UNCHANGED received
   /\ UNCHANGED << updates, on_time, connected, now, ret >>

\* self.iter.next() returns None, the bus being gone and nothing left to read:
\* the arm `_ => ()` (lines 90, 115).
next_read_disconnected ==
   /\ receptions_pc = "read"
   /\ receptions.cursor = Len(updates)
   /\ ~connected
   /\ receptions_pc' = "loop"
   /\ UNCHANGED << updates, on_time, connected, receptions, received, now, ret >>

\* What the steps of a Receptions leave alone.
nonReceptionVars ==
   << parent_id, routingVars, entries_and_expirations, storageThreadVars, tableThreadVars >>

\* A Receptions as configured by its caller, before anything is posted.
ReceptionsInit ==
   /\ parent_id = 0
   /\ buckets = [i \in BucketIndexes |-> << >>]
   /\ conflicts = << >>
   /\ panicked = FALSE
   /\ ret = [op |-> "new"]
   /\ clock = 0
   /\ last_insert = [id \in Hashes |-> 0]
   /\ nodes_iter = None
   /\ yielded = << >>
   /\ entries_and_expirations = << >>
   /\ now = 0
   /\ rwlock = Unlocked
   /\ storage_pc = [t \in Threads |-> [pc |-> "idle"]]
   /\ writes = [key \in Hashes |-> << >>]
   /\ updates = << >>
   /\ on_time = 0
   /\ connected = TRUE
   /\ receptions \in Configured
   /\ receptions_pc = "idle"
   /\ received = << >>
   /\ bucket_locks = [i \in BucketIndexes |-> Unlocked]
   /\ conflicts_mutex = None
   /\ table_pc = [t \in Threads |-> [pc |-> "idle"]]

\* The steps of the thread that iterates.
ReceptionsStep ==
   \/ next_loop /\ UNCHANGED nonReceptionVars
   \/ next_read /\ UNCHANGED nonReceptionVars
   \/ next_read_disconnected /\ UNCHANGED nonReceptionVars

\* The steady clock, with a Receptions in use.
ReceptionsClock ==
   advance /\ UNCHANGED << routingVars, storageThreadVars, tableThreadVars, receptionVars >>

ReceptionsNext ==
   \/ \E update \in Updates : post(update) /\ UNCHANGED nonReceptionVars
   \/ disconnect /\ UNCHANGED nonReceptionVars
   \/ next_call /\ UNCHANGED nonReceptionVars
   \/ ReceptionsStep
   \/ ReceptionsClock

\* A Receptions, the bus that feeds it and the clock.
ReceptionsSpec == ReceptionsInit /\ [][ReceptionsNext]_vars

\* The same, the iterating thread being scheduled and the clock moving on.
ReceptionsFairSpec ==
   ReceptionsSpec /\ WF_vars(ReceptionsStep) /\ WF_vars(ReceptionsClock)

\* ------------------------------------------------------ routing table claims
\* Every (bucket, position) slot of the table.
Slots == {<< i, k >> : i \in BucketIndexes, k \in 1 .. BUCKET_DEPTH}
Filled == {sl \in Slots : sl[2] <= Len(buckets[sl[1]])}

\* C2: in every reachable state no node id appears more than once across all
\* buckets of the table, also when the evicted peer of a conflict was inserted
\* again before that conflict is reverted.
C2_NoIdTwice ==
   \A s1 \in Filled : \A s2 \in Filled :
      s1 # s2 => buckets[s1[1]][s1[2]].id # buckets[s2[1]][s2[2]].id

\* C3: every entry of the conflicts list has its `inserted` peer still present
\* in its bucket and its `evicted` peer absent from it.
C3_ConflictsCurrent ==
   \A k \in 1 .. Len(conflicts) :
      LET c == conflicts[k]
          index == bucket_for_node(c.inserted.id)
      IN /\ index # None
         /\ c.inserted.id \in Ids(buckets[index[1]])
         /\ c.evicted.id \notin Ids(buckets[index[1]])

\* C4: revert_conflict of a recorded conflict, called at any later point, does
\* not panic, replaces the `inserted` entry of its bucket by `evicted` and
\* leaves the bucket's size unchanged.
C4_RevertInfallible ==
   [][ret'.op = "revert_conflict" =>
         LET c == ret'.conflict
             i == bucket_for_node(c.inserted.id)[1]
         IN /\ ~panicked'
            /\ Len(buckets'[i]) = Len(buckets[i])
            /\ \E k \in 1 .. Len(buckets[i]) :
                  /\ buckets[i][k].id = c.inserted.id
                  /\ buckets'[i] = [buckets[i] EXCEPT ![k] = c.evicted]
     ]_vars

\* C5: insert_node(info) appends exactly one conflict {former front, info} iff
\* info's bucket holds BUCKET_DEPTH entries none of which has info.id, and then
\* the evicted id has left the bucket and info.id is in it; otherwise no
\* conflict is recorded, and inserting a present id keeps the bucket's length.
C5_EvictionAccounting ==
   [][(ret'.op = "insert_node" /\ ret'.info.id # parent_id) =>
         LET info == ret'.info
             i == bucket_for_node(info.id)[1]
             old == buckets[i]
             new == buckets'[i]
             full == Len(old) = BUCKET_DEPTH /\ info.id \notin Ids(old)
         IN /\ full => /\ conflicts' = Append(conflicts, EvictionConflict(Head(old), info))
                       /\ Head(old).id \notin Ids(new)
                       /\ info.id \in Ids(new)
            /\ ~full => conflicts' = conflicts
            /\ info.id \in Ids(old) => Len(new) = Len(old)
     ]_vars

\* C7: in every reachable state every bucket holds at most BUCKET_DEPTH entries.
C7_BucketBound == \A i \in BucketIndexes : Len(buckets[i]) <= BUCKET_DEPTH

\* A full bucket that has evicted and seen a revert.
C7_Witness ==
   /\ ret.op = "revert_conflict"
   /\ ~panicked
   /\ Len(conflicts) = MaxConflicts
   /\ \E i \in BucketIndexes : Len(buckets[i]) = BUCKET_DEPTH

\* height() as the specification words it: one plus the position of the most
\* significant set bit, 0 for the zero hash.
spec_height(x) == IF x = 0 THEN 0 ELSE height(x)[1] + 1

Placement ==
   \A sl \in Filled :
      /\ spec_height(Xor(parent_id, buckets[sl[1]][sl[2]].id)) = sl[1] + 1
      /\ buckets[sl[1]][sl[2]].id # parent_id

\* C8: the bucket at index i holds only peers p with
\* (parent_id ^ p.id).height() = i + 1, parent_id is in no bucket, and
\* insert_node of a NodeInfo whose id is parent_id changes neither the buckets
\* nor the conflicts list.
C8_BucketPlacement ==
   /\ Placement
   /\ [][/\ Placement'
         /\ (ret'.op = "insert_node" /\ ret'.info.id = parent_id)
               => UNCHANGED << buckets, conflicts >>
       ]_vars

\* The parent's own id was inserted into a table that holds peers.
C8_Witness ==
   /\ ret.op = "insert_node"
   /\ ret.info.id = parent_id
   /\ parent_id # 0
   /\ \A i \in BucketIndexes : buckets[i] # << >>

\* Front to back, the entries of every bucket are in the order of their most
\* recent insert_node call.
RecencyOrder ==
   \A i \in BucketIndexes :
      \A k \in 1 .. Len(buckets[i]) :
         /\ last_insert[buckets[i][k].id] > 0
         /\ \A l \in (k + 1) .. Len(buckets[i]) :
               last_insert[buckets[i][k].id] < last_insert[buckets[i][l].id]

\* C6: after any sequence of insert_node calls the entries of a bucket appear
\* front to back in the order of their most recent insert_node call (inserting
\* a present id moves it to the back), and the peer evicted from a full bucket
\* is the entry whose last insert_node is the oldest of the bucket.
C6_RecencyOrder ==
   /\ RecencyOrder
   /\ [][/\ RecencyOrder'
         /\ conflicts' # conflicts =>
               LET c == conflicts'[Len(conflicts')]
                   old == buckets[bucket_for_node(c.inserted.id)[1]]
               IN /\ c.evicted \in Range(old)
                  /\ \A e \in Range(old) :
                        last_insert[c.evicted.id] <= last_insert[e.id]
                  /\ last_insert'[c.inserted.id] = clock'
                  /\ buckets'[bucket_for_node(c.inserted.id)[1]][BUCKET_DEPTH] = c.inserted
       ]_vars

\* A bucket was filled, its first peer was seen again, and the next new peer
\* evicted the second one.
C6_Witness ==
   /\ clock = BUCKET_DEPTH + 2
   /\ Len(conflicts) = 1
   /\ last_insert[conflicts[1].evicted.id] = 2
   /\ last_insert[parent_id] = 0
   /\ Cardinality({id \in Hashes : last_insert[id] > 0}) = BUCKET_DEPTH + 1

\* ---------------------------------------------------------------- lookup claims
Entry(sl) == buckets[sl[1]][sl[2]]
Occurrences(list, node) == Cardinality({k \in 1 .. Len(list) : list[k] = node})
Stored(node) == Cardinality({sl \in Filled : Entry(sl) = node})
Blacklisted(blacklist) == IF blacklist = None THEN {} ELSE Range(blacklist[1])
Eligible(blacklist) == {sl \in Filled : Entry(sl).id \notin Blacklisted(blacklist)}
Min(a, b) == IF a <= b THEN a ELSE b

\* list holds the n stored peers closest to id that are not blacklisted, closest first.
ClosestContract(list, id, n, blacklist) ==
   /\ \A k \in 1 .. Len(list) : \A l \in (k + 1) .. Len(list) :
         Xor(list[k].id, id) <= Xor(list[l].id, id)
   /\ \A k \in 1 .. Len(list) : list[k].id \notin Blacklisted(blacklist)
   /\ Len(list) = Min(n, Cardinality(Eligible(blacklist)))
   /\ \A k \in 1 .. Len(list) : Occurrences(list, list[k]) <= Stored(list[k])
   /\ \A sl \in Eligible(blacklist) :
         Occurrences(list, Entry(sl)) < Stored(Entry(sl))
            => \A k \in 1 .. Len(list) :
                  ~(Xor(Entry(sl).id, id) < Xor(list[k].id, id))

\* The last call was a lookup with n >= 1 of an id that is neither parent_id
\* nor in the table.
LookupOfAbsent ==
   /\ ret.op = "lookup"
   /\ ret.n >= 1
   /\ ret.id # parent_id
   /\ \A sl \in Filled : Entry(sl).id # ret.id

\* C1 as stated: such a lookup returns ClosestNodes(list), list sorted by
\* ascending XOR distance to id, free of blacklisted ids, of length
\* min(n, number of peers not blacklisted), no peer left out being closer.
C1_AlwaysClosestNodes ==
   LookupOfAbsent =>
      /\ ret.result.kind = "ClosestNodes"
      /\ ClosestContract(ret.result.nodes, ret.id, ret.n, ret.blacklist)

\* C1, amended: such a lookup returns Nothing when the table holds no peer that
\* is not blacklisted, and otherwise ClosestNodes(list) with list as stated.
C1_ClosestOrNothing ==
   LookupOfAbsent =>
      IF Eligible(ret.blacklist) = {}
      THEN ret.result = Nothing
      ELSE /\ ret.result.kind = "ClosestNodes"
           /\ ClosestContract(ret.result.nodes, ret.id, ret.n, ret.blacklist)

\* A lookup that bounced: it took peers from a bucket of the descent and from a
\* bucket of the ascent, dropped a blacklisted peer and left a farther one out.
C1_Witness ==
   /\ LookupOfAbsent
   /\ parent_id # 0
   /\ ret.result.kind = "ClosestNodes"
   /\ Len(ret.result.nodes) = ret.n
   /\ Cardinality(Eligible(ret.blacklist)) > ret.n
   /\ Cardinality(Eligible(ret.blacklist)) < Cardinality(Filled)
   /\ \E k \in 1 .. ret.n : \E l \in 1 .. ret.n :
         LET d == Xor(parent_id, ret.id) IN
         /\ Bit(d, bucket_for_node(ret.result.nodes[k].id)[1]) = 1
         /\ Bit(d, bucket_for_node(ret.result.nodes[l].id)[1]) = 0

\* ------------------------------------------------------------- all_nodes claims
Distance(node) == Xor(node.id, parent_id)

\* The iterator has come to its end.
Exhausted == ret.op = "next" /\ ret.item = None

\* C9: on a table that is not modified meanwhile, all_nodes() yields every
\* stored peer exactly once in ascending XOR distance to parent_id: of two
\* peers yielded one after the other, the first is not the farther one.
C9_AscendingOrder ==
   /\ \A k \in 1 .. (Len(yielded) - 1) :
         Distance(yielded[k]) <= Distance(yielded[k + 1])
   /\ Exhausted => \A node \in NodeInfos : Occurrences(yielded, node) = Stored(node)

\* ---------------------------------------------------------------- storage claims
\* C10 as stated: store returns StorageFull, and changes nothing, exactly when
\* the map holds MAX_STORAGE entries and the key is not present; in every other
\* case it inserts or overwrites and returns AlreadyPresent if the key was
\* present, Success otherwise.
C10_FullOnlyForNewKeys ==
   [][ret'.op = "store" =>
         LET map == entries_and_expirations
             present == ret'.key \in DOMAIN map
             full == Cardinality(DOMAIN map) = MAX_STORAGE /\ ~present
             stored == EntryAndExpiration(ret'.entry, now + BASE_EXPIRATION_TIME_HRS)
         IN /\ ret'.result = "StorageFull" <=> full
            /\ full => entries_and_expirations' = map
            /\ ~full =>
                  /\ entries_and_expirations' = map_insert(map, ret'.key, stored)
                  /\ ret'.result = IF present THEN "AlreadyPresent" ELSE "Success"
     ]_vars

\* C10, amended: store returns StorageFull, and changes nothing, exactly when
\* the map holds MAX_STORAGE entries, whether or not the key is present; in
\* every other case it inserts or overwrites and returns AlreadyPresent if the
\* key was present, Success otherwise.
C10_FullForEveryKey ==
   [][ret'.op = "store" =>
         LET map == entries_and_expirations
             present == ret'.key \in DOMAIN map
             full == Cardinality(DOMAIN map) = MAX_STORAGE
             stored == EntryAndExpiration(ret'.entry, now + BASE_EXPIRATION_TIME_HRS)
         IN /\ ret'.result = "StorageFull" <=> full
            /\ full => entries_and_expirations' = map
            /\ ~full =>
                  /\ entries_and_expirations' = map_insert(map, ret'.key, stored)
                  /\ ret'.result = IF present THEN "AlreadyPresent" ELSE "Success"
     ]_vars

\* A full storage has refused a store to a key it holds; that key had been
\* overwritten before.
C10_Witness ==
   /\ ret.op = "store"
   /\ ret.result = "StorageFull"
   /\ len = MAX_STORAGE
   /\ ret.key \in DOMAIN entries_and_expirations
   /\ entries_and_expirations[ret.key].entry # ret.entry
   /\ \E key \in DOMAIN entries_and_expirations :
         entries_and_expirations[key].expiration > BASE_EXPIRATION_TIME_HRS

\* C11: when the storage holds MAX_STORAGE entries, store(key, entry) for a key
\* that is already present returns StorageFull and leaves that key's stored
\* entry, its expiration and len() unchanged.
C11_FullRefusesPresentKey ==
   [][(/\ ret'.op = "store"
       /\ len = MAX_STORAGE
       /\ ret'.key \in DOMAIN entries_and_expirations) =>
         /\ ret'.result = "StorageFull"
         /\ ret'.key \in DOMAIN entries_and_expirations'
         /\ entries_and_expirations'[ret'.key].entry
               = entries_and_expirations[ret'.key].entry
         /\ entries_and_expirations'[ret'.key].expiration
               = entries_and_expirations[ret'.key].expiration
         /\ Cardinality(DOMAIN entries_and_expirations') = len
     ]_vars

\* Hours after it was stored, a key of a full storage was stored again with
\* another entry and refused: the old entry and the old expiration are kept.
C11_Witness ==
   /\ ret.op = "store"
   /\ ret.result = "StorageFull"
   /\ now > 0
   /\ len = MAX_STORAGE
   /\ ret.key \in DOMAIN entries_and_expirations
   /\ entries_and_expirations[ret.key].entry # ret.entry
   /\ entries_and_expirations[ret.key].expiration < now + BASE_EXPIRATION_TIME_HRS

\* C12: get(key) returns None for an entry whose expiration is <= now: once
\* the expiration time has passed, every get(key) returns None until the key is
\* stored again.
C12_ExpiredIsAbsent ==
   [][(/\ ret'.op = "get"
       /\ ret'.key \in DOMAIN entries_and_expirations
       /\ entries_and_expirations[ret'.key].expiration <= now) =>
         ret'.result = None
     ]_vars

\* C13: the lifetime store assigns depends on the height h of key ^ parent_id:
\* for h <= EXPIRATION_DISTANCE_THRESHOLD the expiration is the store time plus
\* BASE_EXPIRATION_TIME_HRS, for h beyond the threshold it is strictly earlier,
\* and it is monotone non-increasing in h.
C13_LifetimeByHeight ==
   [][(ret'.op = "store" /\ ret'.result # "StorageFull") =>
         LET h(key) == spec_height(Xor(key, parent_id))
             stored == entries_and_expirations'[ret'.key].expiration
         IN /\ h(ret'.key) <= EXPIRATION_DISTANCE_THRESHOLD
                  => stored = now + BASE_EXPIRATION_TIME_HRS
            /\ h(ret'.key) > EXPIRATION_DISTANCE_THRESHOLD
                  => stored < now + BASE_EXPIRATION_TIME_HRS
            /\ \A k1 \in StorageKeys : \A k2 \in StorageKeys :
                  h(k1) <= h(k2) => expiration_of(k1) >= expiration_of(k2)
     ]_vars

\* C15: in every reachable state of the storage len() <= MAX_STORAGE; when
\* len() = MAX_STORAGE, store of a key that is not present returns StorageFull
\* and len() stays MAX_STORAGE.
C15_LenBound ==
   /\ len <= MAX_STORAGE
   /\ [][/\ Cardinality(DOMAIN entries_and_expirations') <= MAX_STORAGE
         /\ (/\ ret'.op = "store"
             /\ len = MAX_STORAGE
             /\ ret'.key \notin DOMAIN entries_and_expirations) =>
               /\ ret'.result = "StorageFull"
               /\ Cardinality(DOMAIN entries_and_expirations') = MAX_STORAGE
       ]_vars

\* A full storage has refused a key it does not hold.
C15_Witness ==
   /\ ret.op = "store"
   /\ ret.result = "StorageFull"
   /\ len = MAX_STORAGE
   /\ ret.key \notin DOMAIN entries_and_expirations

\* ------------------------------------------------------ shared storage claims
\* C14: under any interleaving of store and get calls of several threads, a
\* store(k, v) that returned Success or AlreadyPresent is visible to every
\* get(k) that begins after it returned: such a get returns Some(v') where v' is
\* v or the value of a later store to k that was not refused, never None and
\* never an older value.
C14_StoreVisible ==
   [][\A t \in Threads :
         (/\ storage_pc[t].pc = "get_locked"
          /\ storage_pc'[t].pc = "idle"
          /\ storage_pc[t].floor > 0) =>
            /\ ret'.result # None
            /\ \E j \in storage_pc[t].floor .. Len(writes[storage_pc[t].key]) :
                  ret'.result = Some(writes[storage_pc[t].key][j])
     ]_vars

\* A get that began after two stores to its key had returned, the second
\* with another entry, has returned while the other thread was in a call.
C14_Witness ==
   /\ ret.op = "get"
   /\ Len(writes[ret.key]) >= 2
   /\ writes[ret.key][1] # writes[ret.key][2]
   /\ ret.result = Some(writes[ret.key][Len(writes[ret.key])])
   /\ \E t \in Threads : storage_pc[t].pc # "idle"

\* ----------------------------------------------------------- receptions claims
IsSome(item) == item # None
IsShutdown(update) == update.type = "Shutdown"

\* The number of Updates posted before the first Shutdown.
BeforeShutdown ==
   IF \E i \in 1 .. Len(updates) : IsShutdown(updates[i])
   THEN (CHOOSE i \in 1 .. Len(updates) :
            /\ IsShutdown(updates[i])
            /\ \A j \in 1 .. (i - 1) : ~IsShutdown(updates[j])) - 1
   ELSE Len(updates)

\* An RpcReceived whose kind is the configured kind (if any) and whose sender
\* is one of the configured senders (if any).
Wanted(update) ==
   /\ update.type = "RpcReceived"
   /\ receptions.kind_filter # None => update.rpc.kind = receptions.kind_filter[1]
   /\ receptions.sender_filter # None
         => update.rpc.sender_id \in Range(receptions.sender_filter[1])

\* The deadline set by during() has been crossed.
DeadlineCrossed == receptions.timeout # None /\ now > receptions.timeout[1]

\* What next() has returned so far is, in posting order, every wanted RPC among
\* the first `upto` Updates that it has read.
YieldsWantedOf(upto) ==
   LET wanted == SelectSeq(SubSeq(updates, 1, Min(receptions.cursor, upto)), Wanted)
   IN SelectSeq(received, IsSome) = [k \in 1 .. Len(wanted) |-> Some(wanted[k].rpc)]

\* C16: the RPCs a Receptions yields are exactly, in posting order, the
\* RpcReceived events that precede the first Shutdown and the deadline, whose
\* kind is the configured kind and whose sender is among the configured senders;
\* Ticks and rejected RPCs are never yielded and no matching RPC is skipped or
\* yielded twice.  At any moment, of the events read so far.
C16_YieldsExactlyMatching == YieldsWantedOf(Min(BeforeShutdown, on_time))

\* The same without the deadline.
YieldsWantedBeforeShutdown == YieldsWantedOf(BeforeShutdown)

\* A call of next() is in progress.
Pending == receptions_pc # "idle"
\* The last call of next() has returned None.
ReturnedNone ==
   /\ receptions_pc = "idle"
   /\ received # << >>
   /\ received[Len(received)] = None

\* C17: a call of next() that is pending or made after the deadline of
\* during(d) eventually returns None, also when no further event is posted on
\* the update channel: with every posted event read and the deadline crossed,
\* the call returns None unless a further event is posted.
C17_DeadlineEndsIteration ==
   \A n \in 0 .. MaxUpdates :
      (/\ Pending
       /\ DeadlineCrossed
       /\ receptions.cursor = n
       /\ Len(updates) = n) ~> (ReturnedNone \/ Len(updates) > n)

\* C18: when the update channel is disconnected and nothing is left to read,
\* next() terminates and returns None, with or without a deadline.
C18_DisconnectEndsIteration ==
   (Pending /\ ~connected /\ receptions.cursor = Len(updates)) ~> ReturnedNone

\* C19: once a Shutdown was consumed, the call that consumed it returns None
\* without yielding an RPC posted after the Shutdown, and every later call
\* returns None without reading from the channel; the ended state is permanent.
C19_ShutdownIsFinal ==
   [][receptions.shutdown =>
         /\ receptions'.shutdown
         /\ receptions'.cursor = receptions.cursor
         /\ receptions_pc' # "read"
         /\ received' # received => received' = Append(received, None)
     ]_vars

\* An RPC was yielded, the Shutdown was consumed by a call that returned None,
\* a later call returned None too, and a wanted RPC posted after the Shutdown
\* is left unread.
C19_Witness ==
   /\ receptions.shutdown
   /\ receptions_pc = "idle"
   /\ Len(received) = 3
   /\ IsSome(received[1])
   /\ received[2] = None
   /\ received[3] = None
   /\ receptions.cursor < Len(updates)
   /\ Wanted(updates[Len(updates)])
   /\ ~DeadlineCrossed

\* -------------------------------------------------------- shared table claims
\* The bucket locks a thread holds, for writing or for reading.
HeldBuckets(t) ==
   {i \in BucketIndexes : bucket_locks[i].writer = Some(t) \/ t \in bucket_locks[i].readers}

\* The thread is waiting for a bucket lock; for the conflicts mutex.
WantsBucket(t) ==
   table_pc[t].pc \in {"insert_node_write", "revert_conflict_write", "specific_node_read",
                       "closest_read", "all_nodes_read"}
WantsConflicts(t) == table_pc[t].pc = "insert_node_lock_conflicts"

\* The bucket whose lock the thread is waiting for.
WantedBucket(t) ==
   IF table_pc[t].pc = "closest_read" THEN Head(table_pc[t].order)
   ELSE IF table_pc[t].pc = "all_nodes_read" THEN table_pc[t].bucket_index
   ELSE table_pc[t].index

\* No thread holds two bucket locks or waits for one while holding another or
\* the conflicts mutex; the mutex is held only inside insert_node, with at most
\* one bucket lock.
LockOrder ==
   \A t \in Threads :
      /\ Cardinality(HeldBuckets(t)) <= 1
      /\ WantsBucket(t) => HeldBuckets(t) = {} /\ conflicts_mutex # Some(t)
      /\ conflicts_mutex = Some(t) => table_pc[t].pc = "insert_node_push"

\* The thread is in a call and its next step can be taken.
CanStep(t) ==
   /\ table_pc[t].pc \notin {"idle", "panicked"}
   /\ table_pc[t].pc \in {"insert_node_write", "revert_conflict_write"}
         => write_available(bucket_locks[WantedBucket(t)])
   /\ table_pc[t].pc \in {"specific_node_read", "closest_read", "all_nodes_read"}
         => read_available(bucket_locks[WantedBucket(t)])
   /\ WantsConflicts(t) => conflicts_mutex = None

\* Where a thread waits for a lock, some thread can take a step.
NoDeadlock ==
   (\E t \in Threads : WantsBucket(t) \/ WantsConflicts(t)) => \E t \in Threads : CanStep(t)

\* closest_n_nodes_to sorts the clone of a bucket with the bucket's lock released.
SortsUnlocked == \A t \in Threads : table_pc[t].pc = "closest_sort" => HeldBuckets(t) = {}

\* C20: under any interleaving of insert_node, lookup, specific_node, all_nodes
\* and revert_conflict calls no thread holds more than one bucket lock, the
\* conflicts mutex is acquired only inside insert_node with at most one bucket
\* lock held, no bucket lock is requested while the mutex is held, the
\* closest-N lookup releases a bucket's read lock after cloning its entries and
\* before sorting them, and no reachable state is a deadlock.
C20_LockDiscipline == LockOrder /\ SortsUnlocked /\ NoDeadlock

====
